---- MODULE Spec2Model ----
(***************************************************************************)
(* Model of the velero client bootstrap layer:                             *)
(*   - package client:   NewFactory, the flag bindings, the accessors      *)
(*                       ClientConfig/Client/KubeClient/DynamicClient and  *)
(*                       the setters SetBasename/SetClientQPS/             *)
(*                       SetClientBurst                                    *)
(*   - package features: the FeatureFlagSet                                *)
(*   - package install:  Install                                           *)
(* Strings that the code parses are sequences of one-character strings;    *)
(* all other strings are opaque values.                                    *)
(***************************************************************************)
EXTENDS Integers, Sequences, FiniteSets, TLC

VARIABLES
    \* ---- package client ----
    env,          \* value of VELERO_NAMESPACE ("" when unset)
    cfgFile,      \* the persisted config file, or Unreadable
    pc,           \* "new", "constructed" (NewFactory returned), "ready" (flags parsed)
    f,            \* the factory struct
    cmdFeatures,  \* NewFactory's local cmdFeatures, bound to --features
    warnings,     \* number of warnings written to stderr
    cmdLine,      \* the command line that was parsed
    lastSet,      \* base name / QPS / burst most recently set by the caller
    calls,        \* the accessor calls made so far with what each returned
    \* ---- package features ----
    ffs,          \* a FeatureFlagSet
    ffpc,         \* "new" before NewFeatureFlagSet, "ready" after
    passed,       \* every name passed to the constructor or to Enable, in order
    \* ---- package install ----
    resources,    \* Install's resource list
    ipc,          \* "idle" (Install not called), "loop", "done"
    idx,          \* index of the next item of the range loop
    attempts,     \* create calls issued so far, in order
    cluster,      \* objects present on the cluster
    ret           \* Install's return value

clientVars  == <<env, cfgFile, pc, f, cmdFeatures, warnings, cmdLine, lastSet, calls>>
ffVars      == <<ffs, ffpc, passed>>
installVars == <<resources, ipc, idx, attempts, cluster, ret>>
vars        == <<clientVars, ffVars, installVars>>

(***************************************************************************)
(* Bounds                                                                  *)
(***************************************************************************)
MaxCalls   == 1
MaxPassed  == 4
MaxItems   == 3

Range(s) == {s[i] : i \in 1..Len(s)}

\* Go's nil, for errors and for client handles
Nil == [kind |-> "nil"]

(***************************************************************************)
(* package features: FeatureFlagSet                                        *)
(* The set is kept as the list of its names in insertion order.            *)
(***************************************************************************)
FeatureNames == {"f1", "f2", "f3"}

\* a faulty Enable that drops the name
FFEnableDropped(s, name) == s

\* Enable(name): add name to the set
FFEnable(s, name) == IF name \in Range(s) THEN s ELSE Append(s, name)

\* Enabled(name): membership test
FFEnabled(s, name) == name \in Range(s)

\* All(): the names of the set
FFAll(s) == s

RECURSIVE EnableAll(_, _)
EnableAll(s, names) ==
    IF names = <<>> THEN s
    ELSE EnableAll(FFEnable(s, Head(names)), Tail(names))

\* NewFeatureFlagSet(names...)
NewFeatureFlagSet(names) == EnableAll(<<>>, names)

(***************************************************************************)
(* package client: configuration sources                                   *)
(***************************************************************************)
\* v1.DefaultNamespace
DefaultNamespace == "velero"

\* the config file cannot be read or decoded
Unreadable == [kind |-> "unreadable"]

\* the error LoadConfig returns for an unreadable file
LoadError == [kind |-> "loadError"]

\* zero value of VeleroConfig (var config VeleroConfig)
ZeroConfig == [namespace |-> "", features |-> <<>>]

\* VeleroConfig.Namespace()
ConfigNamespace(c) == c.namespace

\* VeleroConfig.Features()
ConfigFeatures(c) == c.features

\* LoadConfig(): (VeleroConfig, error)
LoadConfig(file) ==
    IF file = Unreadable
    THEN [config |-> ZeroConfig, err |-> LoadError]
    ELSE [config |-> file, err |-> Nil]

\* a flag as given on a command line: passed or not, and its value
NotPassed    == [set |-> FALSE, value |-> ""]
Passed(v)    == [set |-> TRUE, value |-> v]
NotPassedL   == [set |-> FALSE, value |-> <<>>]

EnvValues    == {"", "foo"}
ConfigFiles  == {Unreadable,
                 [namespace |-> "", features |-> <<"f1">>],
                 [namespace |-> "cfgns", features |-> <<"f1", "f2">>]}
BaseNames    == {"velero", "velero-server"}
QPSValues    == {0, 20}
BurstValues  == {0, 30}
NoFlags      == [namespace |-> NotPassed, kubeconfig |-> NotPassed,
                 kubecontext |-> NotPassed, features |-> NotPassedL]
CommandLines == {NoFlags,
                 [NoFlags EXCEPT !.namespace = Passed("bar")],
                 [NoFlags EXCEPT !.kubeconfig = Passed("/kube"),
                                 !.kubecontext = Passed("ctx"),
                                 !.features = Passed(<<"f2", "f3">>)],
                 [NoFlags EXCEPT !.namespace = Passed("bar"),
                                 !.kubeconfig = Passed("/kube"),
                                 !.features = Passed(<<"f3">>)]}

(***************************************************************************)
(* package client: NewFactory                                              *)
(***************************************************************************)
\* a resolution that lets the environment variable win over the config file
ResolveNamespaceEnvFirst(envv, loaded) ==
    LET fromCfg == IF loaded.err = Nil THEN ConfigNamespace(loaded.config) ELSE ""
        ns      == IF envv # "" THEN envv ELSE fromCfg
    IN  IF ns = "" THEN DefaultNamespace ELSE ns

\* a resolution that gives up on the environment when the file cannot be loaded
ResolveNamespaceErrDefault(envv, loaded) ==
    IF loaded.err # Nil THEN DefaultNamespace
    ELSE LET ns == IF ConfigNamespace(loaded.config) # ""
                   THEN ConfigNamespace(loaded.config) ELSE envv
         IN  IF ns = "" THEN DefaultNamespace ELSE ns

\* f.namespace as NewFactory leaves it
ResolveNamespace(envv, loaded) ==
    LET ns0 == envv
        ns1 == IF loaded.err = Nil
               THEN (IF ConfigNamespace(loaded.config) # ""
                     THEN ConfigNamespace(loaded.config)
                     ELSE ns0)
               ELSE ns0
    IN  IF ns1 = "" THEN DefaultNamespace ELSE ns1

\* the config that NewFactory's function scope sees: the variable declared by
\* "var config VeleroConfig"; the one LoadConfig fills is declared anew by
\* ":=" inside the if statement and is gone when the if statement ends
OuterConfig(loaded) == ZeroConfig

\* number of warnings NewFactory writes
NewFactoryWarnings(loaded) == IF loaded.err = Nil THEN 0 ELSE 1

\* the factory NewFactory returns
NewFactoryStruct(baseName, envv, loaded) ==
    LET config      == OuterConfig(loaded)
        cmd         == <<>>
        allFeatures == ConfigFeatures(config) \o cmd
    IN  [features    |-> NewFeatureFlagSet(allFeatures),
         kubeconfig  |-> "",
         kubecontext |-> "",
         baseName    |-> baseName,
         namespace   |-> ResolveNamespace(envv, loaded),
         clientQPS   |-> 0,
         clientBurst |-> 0]

\* the factory struct before NewFactory has run
NoFactory ==
    [features |-> <<>>, kubeconfig |-> "", kubecontext |-> "", baseName |-> "",
     namespace |-> "", clientQPS |-> 0, clientBurst |-> 0]

\* parsing a command line with the flag set bound by BindFlags: each flag that
\* is passed writes the variable it was registered with
ParsedFactory(fac, args) ==
    [fac EXCEPT
        !.kubeconfig  = IF args.kubeconfig.set THEN args.kubeconfig.value ELSE @,
        !.namespace   = IF args.namespace.set THEN args.namespace.value ELSE @,
        !.kubecontext = IF args.kubecontext.set THEN args.kubecontext.value ELSE @]

ParsedCmdFeatures(cmd, args) ==
    IF args.features.set THEN args.features.value ELSE cmd

(***************************************************************************)
(* package client: accessors and setters                                   *)
(***************************************************************************)
\* the error Config returns when no connection configuration can be built
ConfigError == [kind |-> "configError"]

\* the error a client constructor returns
CtorError(which) == [kind |-> "ctorError", of |-> which]

\* errors.WithStack(err)
WithStack(err) == [kind |-> "withStack", cause |-> err]

\* Config(kubeconfig, kubecontext, baseName, qps, burst): (*rest.Config, error)
\* ok: whether a kubeconfig is found and parsed
Config(kubeconfig, kubecontext, baseName, qps, burst, ok) ==
    IF ok
    THEN [cfg |-> [kind |-> "restConfig", kubeconfig |-> kubeconfig,
                   kubecontext |-> kubecontext, UserAgent |-> baseName,
                   QPS |-> qps, Burst |-> burst],
          err |-> Nil]
    ELSE [cfg |-> Nil, err |-> ConfigError]

\* a ClientConfig that hands burst and QPS over in each other's place
ClientConfigSwapped(fac, ok) ==
    Config(fac.kubeconfig, fac.kubecontext, fac.baseName, fac.clientBurst,
           fac.clientQPS, ok)

\* factory.ClientConfig
ClientConfig(fac, ok) ==
    Config(fac.kubeconfig, fac.kubecontext, fac.baseName, fac.clientQPS,
           fac.clientBurst, ok)

\* clientset.NewForConfig / kubernetes.NewForConfig / dynamic.NewForConfig
\* ok: whether the library accepts the configuration
NewForConfig(which, cfg, ok) ==
    IF ok
    THEN [client |-> [kind |-> which, config |-> cfg], err |-> Nil]
    ELSE [client |-> Nil, err |-> CtorError(which)]

\* an accessor that drops the constructor's error
AccessorSwallow(fac, which, cfgOk, ctorOk) ==
    LET cc == ClientConfig(fac, cfgOk) IN
    IF cc.err # Nil
    THEN [client |-> Nil, err |-> cc.err, ctorCalled |-> FALSE]
    ELSE LET r == NewForConfig(which, cc.cfg, ctorOk) IN
         [client |-> r.client, err |-> Nil, ctorCalled |-> TRUE]

\* the body shared by Client, KubeClient and DynamicClient; ctorCalled notes
\* whether the client constructor was reached
Accessor(fac, which, cfgOk, ctorOk) ==
    LET cc == ClientConfig(fac, cfgOk) IN
    IF cc.err # Nil
    THEN [client |-> Nil, err |-> cc.err, ctorCalled |-> FALSE]
    ELSE LET r == NewForConfig(which, cc.cfg, ctorOk) IN
         IF r.err # Nil
         THEN [client |-> Nil, err |-> WithStack(r.err), ctorCalled |-> TRUE]
         ELSE [client |-> r.client, err |-> Nil, ctorCalled |-> TRUE]

\* factory.Client
ClientOf(fac, cfgOk, ctorOk) == Accessor(fac, "velero", cfgOk, ctorOk)

\* factory.KubeClient
KubeClientOf(fac, cfgOk, ctorOk) == Accessor(fac, "kube", cfgOk, ctorOk)

\* factory.DynamicClient
DynamicClientOf(fac, cfgOk, ctorOk) == Accessor(fac, "dynamic", cfgOk, ctorOk)

\* a SetClientQPS that writes the burst as well
SetClientQPSBoth(fac, qps) == [fac EXCEPT !.clientQPS = qps, !.clientBurst = qps]

\* factory.SetBasename
SetBasenameOf(fac, name) == [fac EXCEPT !.baseName = name]

\* factory.SetClientQPS
SetClientQPSOf(fac, qps) == [fac EXCEPT !.clientQPS = qps]

\* factory.SetClientBurst
SetClientBurstOf(fac, burst) == [fac EXCEPT !.clientBurst = burst]

\* factory.Namespace
NamespaceOf(fac) == fac.namespace

\* the values the caller has set last, before any setter call
Unset == [baseName |-> "", clientQPS |-> 0, clientBurst |-> 0]

(***************************************************************************)
(* package client: the state machine.  The process calls NewFactory, binds *)
(* and parses the flags, and then runs a command that uses the setters and *)
(* the accessors.                                                          *)
(***************************************************************************)
ClientInit ==
    /\ env \in EnvValues
    /\ cfgFile \in ConfigFiles
    /\ pc = "new"
    /\ f = NoFactory
    /\ cmdFeatures = <<>>
    /\ warnings = 0
    /\ cmdLine = NoFlags
    /\ lastSet = Unset
    /\ calls = <<>>
    /\ ffs = <<>> /\ ffpc = "new" /\ passed = <<>>
    /\ resources = <<>> /\ ipc = "idle" /\ idx = 1
    /\ attempts = <<>> /\ cluster = {} /\ ret = Nil

\* NewFactory(baseName)
NewFactory ==
    /\ pc = "new"
    /\ \E baseName \in {"velero"} :
         LET loaded == LoadConfig(cfgFile) IN
         /\ f' = NewFactoryStruct(baseName, env, loaded)
         /\ warnings' = warnings + NewFactoryWarnings(loaded)
         /\ lastSet' = [Unset EXCEPT !.baseName = baseName]
    /\ cmdFeatures' = <<>>
    /\ pc' = "constructed"
    /\ UNCHANGED <<ffVars, installVars, env, cfgFile, cmdLine, calls>>

\* the caller parses the command line with the flags BindFlags gave it
ParseFlags ==
    /\ pc = "constructed"
    /\ \E args \in CommandLines :
         /\ f' = ParsedFactory(f, args)
         /\ cmdFeatures' = ParsedCmdFeatures(cmdFeatures, args)
         /\ cmdLine' = args
    /\ pc' = "ready"
    /\ UNCHANGED <<ffVars, installVars, env, cfgFile, warnings, lastSet, calls>>

\* an accessor call and what it returned; for a call that returned a
\* configuration or a client, setAt notes the values the caller had set last
\* when the call was made
Call(op, cfgOk, ctorOk, cfg, r) ==
    [op |-> op, cfgOk |-> cfgOk, ctorOk |-> ctorOk, ctorCalled |-> r.ctorCalled,
     cfg |-> cfg, client |-> r.client, err |-> r.err,
     setAt |-> IF cfg # Nil \/ r.client # Nil THEN lastSet ELSE Unset,
     ns |-> ""]

Returned(c) ==
    /\ calls' = Append(calls, c)
    /\ UNCHANGED <<ffVars, installVars, env, cfgFile, pc, f, cmdFeatures,
                   warnings, cmdLine, lastSet>>

CallClientConfig ==
    /\ pc = "ready"
    /\ Len(calls) < MaxCalls
    /\ \E cfgOk \in BOOLEAN :
         LET cc == ClientConfig(f, cfgOk) IN
         Returned(Call("ClientConfig", cfgOk, FALSE, cc.cfg,
                       [ctorCalled |-> FALSE, client |-> Nil, err |-> cc.err]))

CallClient ==
    /\ pc = "ready"
    /\ Len(calls) < MaxCalls
    /\ \E cfgOk \in BOOLEAN, ctorOk \in BOOLEAN :
         Returned(Call("Client", cfgOk, ctorOk, Nil, ClientOf(f, cfgOk, ctorOk)))

CallKubeClient ==
    /\ pc = "ready"
    /\ Len(calls) < MaxCalls
    /\ \E cfgOk \in BOOLEAN, ctorOk \in BOOLEAN :
         Returned(Call("KubeClient", cfgOk, ctorOk, Nil,
                       KubeClientOf(f, cfgOk, ctorOk)))

CallDynamicClient ==
    /\ pc = "ready"
    /\ Len(calls) < MaxCalls
    /\ \E cfgOk \in BOOLEAN, ctorOk \in BOOLEAN :
         Returned(Call("DynamicClient", cfgOk, ctorOk, Nil,
                       DynamicClientOf(f, cfgOk, ctorOk)))

CallNamespace ==
    /\ pc = "ready"
    /\ Len(calls) < MaxCalls
    /\ Returned([Call("Namespace", FALSE, FALSE, Nil,
                      [ctorCalled |-> FALSE, client |-> Nil, err |-> Nil])
                 EXCEPT !.ns = NamespaceOf(f)])

SetBasename ==
    /\ pc = "ready"
    /\ \E name \in BaseNames :
         /\ f' = SetBasenameOf(f, name)
         /\ lastSet' = [lastSet EXCEPT !.baseName = name]
    /\ UNCHANGED <<ffVars, installVars, env, cfgFile, pc, cmdFeatures, warnings, cmdLine, calls>>

SetClientQPS ==
    /\ pc = "ready"
    /\ \E qps \in QPSValues :
         /\ f' = SetClientQPSOf(f, qps)
         /\ lastSet' = [lastSet EXCEPT !.clientQPS = qps]
    /\ UNCHANGED <<ffVars, installVars, env, cfgFile, pc, cmdFeatures, warnings, cmdLine, calls>>

SetClientBurst ==
    /\ pc = "ready"
    /\ \E burst \in BurstValues :
         /\ f' = SetClientBurstOf(f, burst)
         /\ lastSet' = [lastSet EXCEPT !.clientBurst = burst]
    /\ UNCHANGED <<ffVars, installVars, env, cfgFile, pc, cmdFeatures, warnings, cmdLine, calls>>

ClientNext ==
    \/ NewFactory
    \/ ParseFlags
    \/ CallClientConfig
    \/ CallClient
    \/ CallKubeClient
    \/ CallDynamicClient
    \/ CallNamespace
    \/ SetBasename
    \/ SetClientQPS
    \/ SetClientBurst

SpecClient == ClientInit /\ [][ClientNext]_vars

(***************************************************************************)
(* package features: the state machine                                     *)
(***************************************************************************)
NameLists ==
    {<<>>} \cup {<<a>> : a \in FeatureNames}
           \cup {<<a, b>> : a \in FeatureNames, b \in FeatureNames}

FFInit ==
    /\ ffs = <<>> /\ ffpc = "new" /\ passed = <<>>
    /\ env = "" /\ cfgFile = Unreadable /\ pc = "new" /\ f = NoFactory
    /\ cmdFeatures = <<>> /\ warnings = 0 /\ cmdLine = NoFlags
    /\ lastSet = Unset /\ calls = <<>>
    /\ resources = <<>> /\ ipc = "idle" /\ idx = 1
    /\ attempts = <<>> /\ cluster = {} /\ ret = Nil

\* NewFeatureFlagSet(names...)
FFNew ==
    /\ ffpc = "new"
    /\ \E names \in NameLists :
         /\ ffs' = NewFeatureFlagSet(names)
         /\ passed' = names
    /\ ffpc' = "ready"
    /\ UNCHANGED <<clientVars, installVars>>

\* (*FeatureFlagSet).Enable(name)
FFEnableCall ==
    /\ ffpc = "ready"
    /\ Len(passed) < MaxPassed
    /\ \E name \in FeatureNames :
         /\ ffs' = FFEnable(ffs, name)
         /\ passed' = Append(passed, name)
    /\ UNCHANGED <<ffpc, clientVars, installVars>>

FFNext ==
    \/ FFNew
    \/ FFEnableCall

SpecFeatures == FFInit /\ [][FFNext]_vars

(***************************************************************************)
(* package install: Install                                                *)
(***************************************************************************)
Kinds     == {"Namespace", "Deployment"}
ObjNames  == {"velero", "restic"}
\* resource-version strings: "", "1" and "a.b"
Versions  == {<<>>, <<"1">>, <<"a", ".", "b">>}
Resources == [kind : Kinds, name : ObjNames, resourceVersion : Versions]
CreateErrors == {[kind |-> "AlreadyExists"], [kind |-> "Forbidden"]}

RECURSIVE ListsUpTo(_)
ListsUpTo(n) ==
    IF n = 0 THEN {<<>>}
    ELSE LET shorter == ListsUpTo(n - 1) IN
         shorter \cup {Append(l, r) : l \in {x \in shorter : Len(x) = n - 1},
                                      r \in Resources}

\* strings.Index(s, "."): position of the first ".", 0 when there is none
IndexDot(s) ==
    IF \E i \in 1..Len(s) : s[i] = "."
    THEN CHOOSE i \in 1..Len(s) : s[i] = "." /\ \A j \in 1..(i - 1) : s[j] # "."
    ELSE 0

\* schema.ParseGroupResource(gr)
ParseGroupResource(gr) ==
    LET i == IndexDot(gr) IN
    IF i > 0
    THEN [Group |-> SubSeq(gr, i + 1, Len(gr)), Resource |-> SubSeq(gr, 1, i - 1)]
    ELSE [Group |-> <<>>, Resource |-> gr]

\* GroupResource.WithVersion(version)
WithVersion(gr, version) ==
    [Group |-> gr.Group, Version |-> version, Resource |-> gr.Resource]

\* the coordinates Install creates r with
GVROf(r) == WithVersion(ParseGroupResource(r.resourceVersion), <<>>)

\* errors.Wrapf(err, "Error creating resource %s/%s", kind, name)
Wrapf(err, kind, name) ==
    [kind |-> "wrapped", cause |-> err, resourceKind |-> kind, resourceName |-> name]

\* the error Install returns when creating r failed with err
InstallError(r, err) == Wrapf(err, r.kind, r.name)

\* a loop that takes note of a failed create and goes on to the next item
AfterErrorContinue(i) == [ipc |-> "loop", idx |-> i + 1]

\* where Install is after the create of item i failed: it has returned
AfterError(i) == [ipc |-> "done", idx |-> i]

\* a loop that tries the same item again
AfterCreateRetry(i) == i

\* the item the range loop takes after item i was created
AfterCreate(i) == i + 1

\* the cluster after the dynamic client created r under gvr
Created(cl, gvr, r) == cl \cup {[gvr |-> gvr, kind |-> r.kind, name |-> r.name]}

InstallInit ==
    /\ resources \in ListsUpTo(MaxItems)
    /\ ipc = "loop" /\ idx = 1
    /\ attempts = <<>> /\ cluster = {} /\ ret = Nil
    /\ ffs = <<>> /\ ffpc = "new" /\ passed = <<>>
    /\ env = "" /\ cfgFile = Unreadable /\ pc = "new" /\ f = NoFactory
    /\ cmdFeatures = <<>> /\ warnings = 0 /\ cmdLine = NoFlags
    /\ lastSet = Unset /\ calls = <<>>

\* one turn of the loop in which Create succeeds
CreateOk ==
    /\ ipc = "loop"
    /\ idx <= Len(resources)
    /\ LET r == resources[idx]  gvr == GVROf(r) IN
         /\ attempts' = Append(attempts, [item |-> idx, obj |-> r, gvr |-> gvr,
                                          ok |-> TRUE, err |-> Nil])
         /\ cluster' = Created(cluster, gvr, r)
    /\ idx' = AfterCreate(idx)
    /\ UNCHANGED <<resources, ipc, ret, clientVars, ffVars>>

\* one turn of the loop in which Create fails
CreateFails ==
    /\ ipc = "loop"
    /\ idx <= Len(resources)
    /\ \E e \in CreateErrors :
         LET r == resources[idx]  gvr == GVROf(r) IN
         /\ attempts' = Append(attempts, [item |-> idx, obj |-> r, gvr |-> gvr,
                                          ok |-> FALSE, err |-> e])
         /\ ret' = InstallError(r, e)
    /\ ipc' = AfterError(idx).ipc
    /\ idx' = AfterError(idx).idx
    /\ UNCHANGED <<resources, cluster, clientVars, ffVars>>

\* the loop is over: return nil
InstallReturns ==
    /\ ipc = "loop"
    /\ idx > Len(resources)
    /\ ipc' = "done"
    /\ UNCHANGED <<resources, idx, attempts, cluster, ret, clientVars, ffVars>>

InstallNext ==
    \/ CreateOk
    \/ CreateFails
    \/ InstallReturns

SpecInstall == InstallInit /\ [][InstallNext]_vars

(***************************************************************************)
(* Properties                                                              *)
(***************************************************************************)
\* the namespace and the features the persisted config file holds
FileNamespace == IF cfgFile = Unreadable THEN "" ELSE cfgFile.namespace
FileFeatures  == IF cfgFile = Unreadable THEN <<>> ELSE cfgFile.features

RECURSIVE Union(_, _)
\* a followed by the entries of b that are new, each once
Union(a, b) ==
    IF b = <<>> THEN a
    ELSE Union(IF Head(b) \in Range(a) THEN a ELSE Append(a, Head(b)), Tail(b))

AccessorOps == {"Client", "KubeClient", "DynamicClient"}
KindOf(op)  == CASE op = "Client" -> "velero"
                 [] op = "KubeClient" -> "kube"
                 [] op = "DynamicClient" -> "dynamic"

NamespaceIs(ns) ==
    /\ f.namespace = ns
    /\ \A i \in 1..Len(calls) : calls[i].op = "Namespace" => calls[i].ns = ns

C2_FeatureUnion ==
    pc = "ready" => FFAll(f.features) = Union(FileFeatures, cmdLine.features.value)

\* C4: when LoadConfig fails NewFactory still returns a factory, writes one
\* warning and nothing else, resolves the namespace from the flag, the
\* environment or the default, and takes no feature from the config file.
C4_LoadFailureNotFatal ==
    (pc # "new" /\ LoadConfig(cfgFile).err # Nil) =>
        /\ warnings = 1
        /\ NamespaceIs(IF cmdLine.namespace.set THEN cmdLine.namespace.value
                       ELSE IF env # "" THEN env
                       ELSE "velero")
        /\ FFAll(f.features) = <<>>

C4_Witness ==
    /\ pc = "constructed"
    /\ cfgFile = Unreadable
    /\ env = "foo"
    /\ f.namespace = "foo"
    /\ warnings = 1

\* C5: an accessor returns ClientConfig's error as it is, with a nil client
\* and without calling the constructor; it returns the constructor's error
\* wrapped, with a nil client; it returns a client only when both steps
\* succeeded, and a nil error only then.
C5_ErrorsPropagate ==
    \A i \in 1..Len(calls) :
        LET c == calls[i] IN
        c.op \in AccessorOps =>
            /\ ~c.cfgOk =>
                 c.err = ConfigError /\ c.client = Nil /\ ~c.ctorCalled
            /\ (c.cfgOk /\ ~c.ctorOk) =>
                 /\ c.ctorCalled
                 /\ c.client = Nil
                 /\ c.err = WithStack(CtorError(KindOf(c.op)))
            /\ c.client # Nil => (c.cfgOk /\ c.ctorOk /\ c.err = Nil)
            /\ c.err = Nil => (c.cfgOk /\ c.ctorOk /\ c.client # Nil)

C5_Witness ==
    \E i \in 1..Len(calls) :
        /\ calls[i].op = "DynamicClient"
        /\ calls[i].cfgOk /\ ~calls[i].ctorOk
        /\ calls[i].err # Nil

\* the configuration cfg is built from the setter values s
BuiltFrom(cfg, s) ==
    /\ cfg.UserAgent = s.baseName
    /\ cfg.QPS = s.clientQPS
    /\ cfg.Burst = s.clientBurst

FrameOfCallsAndSetters ==
    /\ f'.features = f.features
    /\ calls' # calls => f' = f
    /\ lastSet'.baseName # lastSet.baseName =>
         f' = [f EXCEPT !.baseName = lastSet'.baseName]
    /\ lastSet'.clientQPS # lastSet.clientQPS =>
         f' = [f EXCEPT !.clientQPS = lastSet'.clientQPS]
    /\ lastSet'.clientBurst # lastSet.clientBurst =>
         f' = [f EXCEPT !.clientBurst = lastSet'.clientBurst]

SameConnection ==
    /\ f'.kubeconfig = f.kubeconfig
    /\ f'.kubecontext = f.kubecontext
    /\ f'.namespace = f.namespace

\* C8 (as stated): once NewFactory has returned no step changes kubeconfig,
\* context, namespace or the features, the accessors change no field and each
\* setter changes its own field only.
C8_ImmutableAfterNewFactory ==
    [][pc # "new" =>
         /\ FrameOfCallsAndSetters
         /\ SameConnection
         /\ lastSet' = lastSet => f' = f]_vars

\* C8 (amended): once NewFactory has returned, kubeconfig, context and
\* namespace are changed only by parsing the flags NewFactory bound to them;
\* the features are never changed, the accessors change no field and each
\* setter changes its own field only.
C8_ImmutableButForFlagsAndSetters ==
    [][pc # "new" =>
         /\ FrameOfCallsAndSetters
         /\ pc' = pc => SameConnection
         /\ (lastSet' = lastSet /\ pc' = pc) => f' = f]_vars

C8_Witness ==
    /\ pc = "ready"
    /\ cmdLine.namespace.set /\ f.namespace = "bar"
    /\ f.clientQPS = 20 /\ f.clientBurst = 0 /\ f.baseName = "velero-server"
    /\ calls # <<>>

RECURSIVE FirstOccurrences(_, _)
\* the entries of names not in seen, each once, in order
FirstOccurrences(seen, names) ==
    IF names = <<>> THEN <<>>
    ELSE IF Head(names) \in seen
         THEN FirstOccurrences(seen, Tail(names))
         ELSE <<Head(names)>> \o FirstOccurrences(seen \cup {Head(names)}, Tail(names))

\* C7: Enabled(name) is true exactly for the names passed to the constructor
\* or to Enable, and All() lists them in the order they were first passed.
C7_EnabledIffPassed ==
    ffpc = "ready" =>
        /\ \A n \in FeatureNames : FFEnabled(ffs, n) <=> (n \in Range(passed))
        /\ FFAll(ffs) = FirstOccurrences({}, passed)

C7_Witness ==
    /\ ffpc = "ready"
    /\ passed = <<"f1", "f2", "f3", "f1">>
    /\ FFEnabled(ffs, "f3")
    /\ FFAll(ffs) = <<"f1", "f2", "f3">>

\* the objects the first n create calls put on the cluster
CreatedBy(n) ==
    {[gvr |-> attempts[j].gvr, kind |-> attempts[j].obj.kind,
      name |-> attempts[j].obj.name] : j \in {k \in 1..n : attempts[k].ok}}

\* C3: when a create fails Install returns an error that names the kind and
\* name of that resource and wraps the create error; it has attempted nothing
\* after it and has left the resources created before it in place.
C3_FailFast ==
    \A i \in 1..Len(attempts) :
        ~attempts[i].ok =>
            /\ \A j \in 1..(i - 1) : attempts[j].ok
            /\ ipc = "done"
            /\ Len(attempts) = i
            /\ attempts[i].obj = resources[i]
            /\ ret = Wrapf(attempts[i].err, resources[i].kind, resources[i].name)
            /\ cluster = CreatedBy(i - 1)

C3_Witness ==
    /\ ipc = "done"
    /\ Len(resources) = 3
    /\ Len(attempts) = 2
    /\ attempts[1].ok /\ ~attempts[2].ok
    /\ ret # Nil
    /\ cluster # {}

\* C9: the coordinates of a create call are derived from the resource's
\* kind: resources of one kind are created against one resource type.
C9_GVRFromKind ==
    \A i \in 1..Len(attempts), j \in 1..Len(attempts) :
        attempts[i].obj.kind = attempts[j].obj.kind =>
            attempts[i].gvr = attempts[j].gvr

\* C10: the create calls are the first items of the list, in order and one
\* each; Install returns nil exactly when every item was attempted and every
\* create succeeded.
C10_InOrderOnceEach ==
    /\ Len(attempts) <= Len(resources)
    /\ \A j \in 1..Len(attempts) :
         attempts[j].item = j /\ attempts[j].obj = resources[j]
    /\ ipc = "done" =>
         (ret = Nil <=> /\ Len(attempts) = Len(resources)
                        /\ \A j \in 1..Len(attempts) : attempts[j].ok)

C10_Witness ==
    /\ ipc = "done"
    /\ ret = Nil
    /\ Len(resources) = 3
    /\ Len(attempts) = 3

====
